---- MODULE Spec2Model ----
(***************************************************************************)
(* Model of src/app.py, the classroom leaderboard: a Streamlit script that *)
(* is re-executed top to bottom on every user interaction.  A run takes    *)
(* the widget state (team name, uploaded file, which button was clicked),  *)
(* optionally validates and scores the uploaded submission against the     *)
(* solution table, appends a row to the leaderboard worksheet, and renders *)
(* the leaderboard through a 60-second memo of fetch_leaderboard.          *)
(*                                                                         *)
(* Tables are records [columns, rows]; a row is a record over the table's  *)
(* columns.  A score is the exact rational [num, den] in lowest terms of   *)
(* the value sklearn's f1_score(average='weighted') returns as a float.    *)
(* A missing prediction cell is the label NaN.  Time is in whole seconds.  *)
(* The worksheet is the data rows below the header row of the sheet.       *)
(***************************************************************************)
EXTENDS Integers, Sequences, FiniteSets

VARIABLES solution_df, team_name, uploaded_file, worksheet, cache, now,
          leaderboard_df, run, successes

vars == <<solution_df, team_name, uploaded_file, worksheet, cache, now,
          leaderboard_df, run, successes>>

(***************************************************************************)
(* Bounds of the explored input space.                                     *)
(***************************************************************************)
MaxKey == 3
MaxRows == 3
MaxEntries == 2
MaxTime == 60
TickStep == 30

(***************************************************************************)
(* Program constants.                                                      *)
(***************************************************************************)
TTL == 60

RequiredColumns == {"pol_number", "numclaims"}

NaN == "NaN"

Keys == 1..MaxKey

TrueLabels == {"yes", "no"}

PredLabels == TrueLabels \cup {NaN}

SeqsUpTo(S, n) == UNION {[1..k -> S] : k \in 0..n}

Range(s) == {s[i] : i \in DOMAIN s}

(***************************************************************************)
(* Tables.                                                                 *)
(***************************************************************************)
DataFrame(cols, rows) == [columns |-> cols, rows |-> rows]

Row(k, l) == [pol_number |-> k, numclaims |-> l]

len(df) == Len(df.rows)

\* The CSVs a user can upload: both required columns, only one of them, or
\* neither (a file whose only column is "id").
Submissions ==
    {DataFrame(RequiredColumns, r) :
        r \in SeqsUpTo([pol_number : Keys, numclaims : PredLabels], MaxRows)}
    \cup {DataFrame({"pol_number"}, r) : r \in SeqsUpTo([pol_number : Keys], MaxRows)}
    \cup {DataFrame({"numclaims"}, r) : r \in SeqsUpTo([numclaims : PredLabels], MaxRows)}
    \cup {DataFrame({"id"}, r) : r \in SeqsUpTo([id : Keys], MaxRows)}

ScenarioASolution == DataFrame(RequiredColumns,
    <<Row(1, "yes"), Row(2, "no"), Row(3, "yes")>>)

ScenarioASubmission == DataFrame(RequiredColumns,
    <<Row(1, "yes"), Row(2, "yes"), Row(3, "yes")>>)

\* The operator-supplied answer sets explored: unique keys in and out of
\* order, a single row, a single class, and duplicated keys.
SolutionTables ==
    { ScenarioASolution,
      DataFrame(RequiredColumns, <<Row(1, "yes"), Row(2, "no")>>),
      DataFrame(RequiredColumns, <<Row(3, "no"), Row(1, "yes")>>),
      DataFrame(RequiredColumns, <<Row(2, "no")>>),
      DataFrame(RequiredColumns, <<Row(1, "yes"), Row(2, "yes"), Row(3, "yes")>>),
      DataFrame(RequiredColumns, <<Row(2, "no"), Row(3, "no"), Row(1, "yes")>>),
      DataFrame(RequiredColumns, <<Row(1, "yes"), Row(1, "no"), Row(2, "yes")>>),
      DataFrame(RequiredColumns, <<Row(1, "yes"), Row(1, "yes"), Row(2, "no")>>),
      DataFrame(RequiredColumns, <<Row(2, "yes"), Row(2, "yes")>>),
      DataFrame(RequiredColumns, <<Row(3, "no"), Row(2, "yes"), Row(3, "no")>>) }

NoFile == [is_none |-> TRUE, columns |-> {}, rows |-> <<>>]

File(df) == [is_none |-> FALSE, columns |-> df.columns, rows |-> df.rows]

read_csv(f) == DataFrame(f.columns, f.rows)

(***************************************************************************)
(* pandas: column selection, rename and inner merge.                       *)
(***************************************************************************)
Column(df, c) == [i \in 1..len(df) |-> df.rows[i][c]]

rename(df, old, new) ==
    IF old \notin df.columns THEN df
    ELSE LET cols == (df.columns \ {old}) \cup {new}
         IN DataFrame(cols,
                [i \in 1..len(df) |->
                    [c \in cols |-> df.rows[i][IF c = new THEN old ELSE c]]])

\* The rows of right whose key equals k, in right's order.
RightMatches(k, right) ==
    SelectSeq([j \in 1..len(right) |-> j],
              LAMBDA j : right.rows[j]["pol_number"] = k)

RECURSIVE MergeRows(_, _, _, _)
MergeRows(left, right, cols, i) ==
    IF i > len(left) THEN <<>>
    ELSE LET m == RightMatches(left.rows[i]["pol_number"], right)
         IN [n \in 1..Len(m) |->
                [c \in cols |-> IF c \in left.columns
                                THEN left.rows[i][c]
                                ELSE right.rows[m[n]][c]]]
            \o MergeRows(left, right, cols, i + 1)

\* Variant: rows are paired by position instead of by key.
merge_ByPosition(left, right) ==
    LET cols == left.columns \cup right.columns
        n == IF Len(left.rows) < Len(right.rows) THEN Len(left.rows) ELSE Len(right.rows)
    IN [columns |-> cols,
        rows |-> [i \in 1..n |->
                    [c \in cols |-> IF c \in left.columns THEN left.rows[i][c]
                                    ELSE right.rows[i][c]]]]

\* pd.merge(left, right, on='pol_number', how='inner'): one row per pair of
\* a left row and a right row with the same key, left order first.
merge(left, right) ==
    LET cols == left.columns \cup right.columns
    IN DataFrame(cols, MergeRows(left, right, cols, 1))

(***************************************************************************)
(* sklearn.metrics.f1_score(y_true, y_pred, average='weighted').           *)
(***************************************************************************)
RECURSIVE GCD(_, _)
GCD(a, b) == IF b = 0 THEN a ELSE GCD(b, a % b)

Fraction(n, d) ==
    LET g == GCD(n, d) IN [num |-> n \div g, den |-> d \div g]

RECURSIVE Prod(_, _)
Prod(f, S) ==
    IF S = {} THEN 1
    ELSE LET c == CHOOSE x \in S : TRUE IN f[c] * Prod(f, S \ {c})

RECURSIVE Sum(_, _)
Sum(f, S) ==
    IF S = {} THEN 0
    ELSE LET c == CHOOSE x \in S : TRUE IN f[c] + Sum(f, S \ {c})

\* Variant: average='macro', every class weighs the same.
F1Macro(y_true, y_pred) ==
    LET n == Len(y_true)
        labels == Range(y_true) \cup Range(y_pred)
        tp == [c \in labels |->
                 Cardinality({i \in 1..n : y_true[i] = c /\ y_pred[i] = c})]
        d == [c \in labels |->
                 Cardinality({i \in 1..n : y_true[i] = c})
                 + Cardinality({i \in 1..n : y_pred[i] = c})]
        terms == [c \in labels |-> 2 * tp[c] * Prod(d, labels \ {c})]
    IN IF n = 0 THEN Fraction(0, 1)
       ELSE Fraction(Sum(terms, labels), Cardinality(labels) * Prod(d, labels))

\* Per class c: F1_c = 2 tp / (true_sum + pred_sum); the classes are averaged
\* with weight true_sum (the support of c in y_true).  An empty input scores
\* 0 (zero_division).
F1Weighted(y_true, y_pred) ==
    LET n == Len(y_true)
        labels == Range(y_true) \cup Range(y_pred)
        tp == [c \in labels |->
                 Cardinality({i \in 1..n : y_true[i] = c /\ y_pred[i] = c})]
        true_sum == [c \in labels |-> Cardinality({i \in 1..n : y_true[i] = c})]
        pred_sum == [c \in labels |-> Cardinality({i \in 1..n : y_pred[i] = c})]
        d == [c \in labels |-> true_sum[c] + pred_sum[c]]
        terms == [c \in labels |-> true_sum[c] * 2 * tp[c] * Prod(d, labels \ {c})]
    IN IF n = 0 THEN Fraction(0, 1)
       ELSE Fraction(Sum(terms, labels), n * Prod(d, labels))

\* f1_score raises on a target vector holding a missing value.
F1Raises(y_true, y_pred) == NaN \in Range(y_true) \cup Range(y_pred)

(***************************************************************************)
(* Exceptions, as the content of the message each raise builds.            *)
(***************************************************************************)
Exc(kind, names, actual, expected, msgs) ==
    [kind |-> kind, names |-> names, actual |-> actual, expected |-> expected,
     error_messages |-> msgs]

NoExc == Exc("none", {}, 0, 0, <<>>)

\* Line 134: the fixed text naming both required columns.
MissingColumnsError == Exc("MissingColumns", {"pol_number", "numclaims"}, 0, 0, <<>>)

\* Variant: the two counts are interchanged in the message.
RowCountError_Swapped(submission, solution) ==
    [kind |-> "RowCountMismatch", names |-> {}, actual |-> Len(solution.rows),
     expected |-> Len(submission.rows), error_messages |-> <<>>]

\* Line 68: "Submission has {len(submission_df)} rows, but should have
\* {len(solution_df)}".
RowCountError(submission, solution) ==
    Exc("RowCountMismatch", {}, len(submission), len(solution), <<>>)

\* Lines 78-84: one message part per non-empty direction, carrying its size.
KeySetError(missing_ids, extra_ids) ==
    Exc("KeySetMismatch", {}, 0, 0,
        (IF missing_ids # {}
         THEN <<[what |-> "missing", count |-> Cardinality(missing_ids)]>>
         ELSE <<>>)
        \o (IF extra_ids # {}
            THEN <<[what |-> "unexpected", count |-> Cardinality(extra_ids)]>>
            ELSE <<>>))

\* Selecting a column the table does not have.
KeyError(c) == Exc("KeyError", {c}, 0, 0, <<>>)

\* f1_score rejecting its input.
ScoringError == Exc("ScoringError", {}, 0, 0, <<>>)

(***************************************************************************)
(* calculate_f1_score, lines 62-96.                                        *)
(***************************************************************************)
ids(df) == Range(Column(df, "pol_number"))

\* Variant: only a submission that is too short is rejected.
RowCountOk_AtLeast(submission, solution) == len(submission) >= len(solution)

RowCountOk(submission, solution) == len(submission) = len(solution)

\* Variant: unexpected keys are rejected, missing ones are not.
KeySetOk_Subset(solution_ids, submission_ids) == submission_ids \subseteq solution_ids

\* Variant: the comparison is inverted.
KeySetOk_Inverted(solution_ids, submission_ids) == solution_ids # submission_ids

KeySetOk(solution_ids, submission_ids) == solution_ids = submission_ids

\* Variant: the difference is taken the wrong way round.
MissingIds_Swapped(solution_ids, submission_ids) == submission_ids \ solution_ids

MissingIds(solution_ids, submission_ids) == solution_ids \ submission_ids

ExtraIds(solution_ids, submission_ids) == submission_ids \ solution_ids

NoScore == [num |-> 0, den |-> 1]

Result(raised, exc, score, trace, merged_len, missing_ids, extra_ids) ==
    [raised |-> raised, exc |-> exc, score |-> score, trace |-> trace,
     merged_len |-> merged_len, missing_ids |-> missing_ids,
     extra_ids |-> extra_ids]

Raise(exc, trace) == Result(TRUE, exc, NoScore, trace, 0, {}, {})

calculate_f1_score(submission, solution) ==
    IF ~RowCountOk(submission, solution)
    THEN Raise(RowCountError(submission, solution), <<"rows">>)
    ELSE IF "pol_number" \notin submission.columns
    THEN Raise(KeyError("pol_number"), <<"rows", "keys">>)
    ELSE
    LET solution_ids == ids(solution)
        submission_ids == ids(submission)
        missing_ids == MissingIds(solution_ids, submission_ids)
        extra_ids == ExtraIds(solution_ids, submission_ids)
    IN  IF ~KeySetOk(solution_ids, submission_ids)
        THEN Result(TRUE, KeySetError(missing_ids, extra_ids), NoScore,
                    <<"rows", "keys">>, 0, missing_ids, extra_ids)
        ELSE
        LET submission_renamed == rename(submission, "numclaims", "submission_target")
            solution_renamed == rename(solution, "numclaims", "solution_target")
            merged_df == merge(submission_renamed, solution_renamed)
        IN  IF "submission_target" \notin merged_df.columns
            THEN Result(TRUE, KeyError("submission_target"), NoScore,
                        <<"rows", "keys", "merge">>, len(merged_df), {}, {})
            ELSE
            LET y_true == Column(merged_df, "solution_target")
                y_pred == Column(merged_df, "submission_target")
            IN  IF F1Raises(y_true, y_pred)
                THEN Result(TRUE, ScoringError, NoScore,
                            <<"rows", "keys", "merge", "f1_score">>,
                            len(merged_df), {}, {})
                ELSE Result(FALSE, NoExc, F1Weighted(y_true, y_pred),
                            <<"rows", "keys", "merge", "f1_score">>,
                            len(merged_df), {}, {})

(***************************************************************************)
(* fetch_leaderboard, lines 41-60.                                         *)
(***************************************************************************)
ScoreLess(a, b) == a.num * b.den < b.num * a.den

\* Insert e after every entry whose score is not lower.
RECURSIVE InsertDesc(_, _)
InsertDesc(e, s) ==
    IF s = <<>> THEN <<e>>
    ELSE IF ScoreLess(Head(s).Score, e.Score) THEN <<e>> \o s
    ELSE <<Head(s)>> \o InsertDesc(e, Tail(s))

RECURSIVE sort_values(_)
sort_values(s) ==
    IF s = <<>> THEN <<>>
    ELSE InsertDesc(s[Len(s)], sort_values(SubSeq(s, 1, Len(s) - 1)))

\* The body of fetch_leaderboard: read all records, sort by Score descending
\* (ties keep their sheet order), number the ranks.  Every row the script
\* appends has a numeric Score, so dropna and to_numeric keep all of them; the
\* sheet is taken to return the rows as they were appended.
ReadLeaderboard(ws) ==
    LET df_sorted == sort_values(ws)
    IN [i \in 1..Len(df_sorted) |->
           [Rank |-> i, Name |-> df_sorted[i].Name, Score |-> df_sorted[i].Score,
            Timestamp |-> df_sorted[i].Timestamp]]

EmptyCache == [valid |-> FALSE, value |-> <<>>, t |-> 0]

\* st.cache_data.clear()
cache_clear(c) == EmptyCache

\* @st.cache_data(ttl=60): the memoised value is returned while it is younger
\* than the TTL, otherwise the body runs and its result is memoised.
fetch_leaderboard(c, ws, t) ==
    IF c.valid /\ t - c.t < TTL
    THEN [value |-> c.value, cache |-> c]
    ELSE LET v == ReadLeaderboard(ws)
         IN [value |-> v, cache |-> [valid |-> TRUE, value |-> v, t |-> t]]

(***************************************************************************)
(* Submission logic, lines 125-148.                                        *)
(***************************************************************************)
\* Variant: only the key column is required.
SchemaOk_KeyOnly(submission_df) == "pol_number" \in submission_df.columns

SchemaOk(submission_df) == RequiredColumns \subseteq submission_df.columns

Attempt(outcome, r) ==
    [outcome |-> outcome, exc |-> r.exc, score |-> r.score, trace |-> r.trace,
     merged_len |-> r.merged_len, missing_ids |-> r.missing_ids,
     extra_ids |-> r.extra_ids]

NoAttempt == Attempt("none", Result(FALSE, NoExc, NoScore, <<>>, 0, {}, {}))

\* Lines 126-137: the two warnings, then the try block up to the score.
ScoreSubmission(team, file, sol) ==
    IF team = "" THEN Attempt("warning_name", Raise(NoExc, <<>>))
    ELSE IF file.is_none THEN Attempt("warning_file", Raise(NoExc, <<>>))
    ELSE
    LET submission_df == read_csv(file)
    IN  IF ~SchemaOk(submission_df)
        THEN Attempt("error", Raise(MissingColumnsError, <<"read_csv", "schema">>))
        ELSE
        LET r == calculate_f1_score(submission_df, sol)
            tr == <<"read_csv", "schema">> \o r.trace
        IN  IF r.raised
            THEN Attempt("error", [r EXCEPT !.trace = tr])
            ELSE Attempt("success",
                    [r EXCEPT !.trace = tr \o <<"append_rows", "clear">>])

new_entry(team, score, t) == [Name |-> team, Score |-> score, Timestamp |-> t]

append_rows(ws, entry) == Append(ws, entry)

\* Variant: the row is appended whatever the try block did before.
Persist_Always(a, team, ws, t) ==
    Append(ws, [Name |-> team, Score |-> a.score, Timestamp |-> t])

\* Lines 139-143 run only when nothing was raised before them.
Persist(att, team, ws, t) ==
    IF att.outcome = "success"
    THEN append_rows(ws, new_entry(team, att.score, t))
    ELSE ws

\* Variant: the memo is left alone.
CacheAfterSubmit_NoClear(a, c) == c

\* Line 146 runs only after a successful append.
CacheAfterSubmit(att, c) ==
    IF att.outcome = "success" THEN cache_clear(c) ELSE c

(***************************************************************************)
(* One execution of the script, lines 109-165: the sidebar widgets hold    *)
(* team and file, at most one button is down.  The refresh button clears   *)
(* the memo after the leaderboard was rendered and reruns the script with  *)
(* no button down, so the run ends on a fresh render.                      *)
(***************************************************************************)
RunScript(submit_button, refresh_button, team, file) ==
    LET att == IF submit_button THEN ScoreSubmission(team, file, solution_df)
               ELSE NoAttempt
        ws == Persist(att, team, worksheet, now)
        c1 == CacheAfterSubmit(att, cache)
        shown == fetch_leaderboard(c1, ws, now)
        final == IF refresh_button
                 THEN fetch_leaderboard(cache_clear(shown.cache), ws, now)
                 ELSE shown
    IN  /\ team_name' = team
        /\ uploaded_file' = file
        /\ worksheet' = ws
        /\ cache' = final.cache
        /\ leaderboard_df' = final.value
        /\ run' = [submit_button |-> submit_button,
                   refresh_button |-> refresh_button,
                   attempt |-> att,
                   rendered_at |-> now,
                   fetched_at |-> final.cache.t]
        /\ successes' = successes + (IF att.outcome = "success" THEN 1 ELSE 0)
        /\ UNCHANGED <<solution_df, now>>

\* Line 112: typing a name reruns the script.
EnterName(n) ==
    /\ n # team_name
    /\ RunScript(FALSE, FALSE, n, uploaded_file)

\* Line 113: picking (or removing) a file reruns the script.
Upload(f) ==
    /\ f # uploaded_file
    /\ RunScript(FALSE, FALSE, team_name, f)

\* Line 118: the submit button.
ClickSubmit ==
    /\ Len(worksheet) < MaxEntries
    /\ RunScript(TRUE, FALSE, team_name, uploaded_file)

\* Line 163: the refresh button.
ClickRefresh == RunScript(FALSE, TRUE, team_name, uploaded_file)

\* The wall clock read at lines 41 and 139.
Tick ==
    /\ now + TickStep <= MaxTime
    /\ now' = now + TickStep
    /\ UNCHANGED <<solution_df, team_name, uploaded_file, worksheet, cache,
                   leaderboard_df, run, successes>>

\* The state once the script has run for the first time (page load): the
\* solution is loaded, the widgets are as given, the leaderboard was fetched.
Loaded(sol, team, file) ==
    /\ solution_df = sol
    /\ team_name = team
    /\ uploaded_file = file
    /\ worksheet = <<>>
    /\ now = 0
    /\ cache = fetch_leaderboard(EmptyCache, <<>>, 0).cache
    /\ leaderboard_df = fetch_leaderboard(EmptyCache, <<>>, 0).value
    /\ run = [submit_button |-> FALSE, refresh_button |-> FALSE,
              attempt |-> NoAttempt, rendered_at |-> 0, fetched_at |-> 0]
    /\ successes = 0

(***************************************************************************)
(* Spec: the life of one session against the Scenario A solution, with a   *)
(* sample of uploads covering every outcome of the submission logic.       *)
(***************************************************************************)
Names == {"A", "B"}

BoardFiles ==
    { File(DataFrame(RequiredColumns, <<Row(3, "yes"), Row(1, "yes"), Row(2, "no")>>)),
      File(ScenarioASubmission),
      File(DataFrame(RequiredColumns, <<Row(1, "yes"), Row(2, NaN), Row(3, "yes")>>)),
      File(DataFrame(RequiredColumns, <<Row(1, "yes"), Row(2, "no")>>)),
      File(DataFrame(RequiredColumns, <<Row(1, "yes"), Row(2, "no"), Row(2, "no")>>)),
      File(DataFrame({"pol_number"}, <<[pol_number |-> 1], [pol_number |-> 2],
                                       [pol_number |-> 3]>>)) }

Init == Loaded(ScenarioASolution, "", NoFile)

Next ==
    \/ \E n \in Names \cup {""} : EnterName(n)
    \/ \E f \in BoardFiles \cup {NoFile} : Upload(f)
    \/ ClickSubmit
    \/ ClickRefresh
    \/ Tick

Spec == Init /\ [][Next]_vars

(***************************************************************************)
(* SpecScore: the submit button pressed on every combination of solution,  *)
(* team name and uploaded file.                                            *)
(***************************************************************************)
InitScore ==
    \E sol \in SolutionTables, team \in Names \cup {""},
       file \in {File(df) : df \in Submissions} \cup {NoFile} :
        Loaded(sol, team, file)

NextScore == ClickSubmit

SpecScore == InitScore /\ [][NextScore]_vars

(***************************************************************************)
(* Vocabulary of the properties, stated on the inputs of the last run      *)
(* (the widgets and the solution) and on what that run did.                *)
(***************************************************************************)
att == run.attempt

Steps == Range(att.trace)

ScoringSteps == {"merge", "f1_score", "append_rows"}

\* The submit button was pressed with a name and a file: the try block ran.
Attempted == run.submit_button /\ team_name # "" /\ ~uploaded_file.is_none

HasColumns == {"pol_number", "numclaims"} \subseteq uploaded_file.columns

SubRows == uploaded_file.rows

SolRows == solution_df.rows

SubKeys == {SubRows[i].pol_number : i \in DOMAIN SubRows}

SolKeys == {SolRows[i].pol_number : i \in DOMAIN SolRows}

SameRowCount == Len(SubRows) = Len(SolRows)

SameKeySet == SubKeys = SolKeys

Unique(rows) ==
    \A i, j \in DOMAIN rows : rows[i].pol_number = rows[j].pol_number => i = j

AllPredictionsCorrect ==
    \A i \in DOMAIN SubRows, j \in DOMAIN SolRows :
        SubRows[i].pol_number = SolRows[j].pol_number
            => SubRows[i].numclaims = SolRows[j].numclaims

\* The score rounds to k / 10000.
ApproxScore(score, k) ==
    LET diff == 10000 * score.num - k * score.den
    IN 2 * (IF diff < 0 THEN -diff ELSE diff) <= score.den

(***************************************************************************)
(* C1: a run reaches the merge, the F1 computation or the store append     *)
(* only for a submission that has the required columns, the solution's row *)
(* count and the solution's key set.                                       *)
(***************************************************************************)
C1_ScoreOnlyAfterValidation ==
    (run.submit_button /\ (Steps \cap ScoringSteps # {} \/ att.outcome = "success"))
        => /\ Attempted
           /\ HasColumns
           /\ SameRowCount
           /\ SameKeySet

C1_Witness ==
    /\ Attempted
    /\ att.outcome = "success"
    /\ ScoringSteps \subseteq Steps

(***************************************************************************)
(* C2: the solution table never changes; the worksheet changes only by one *)
(* appended row in a run whose submission succeeded, so it holds exactly   *)
(* one row per successful attempt and a failed attempt leaves it as it     *)
(* was.                                                                    *)
(***************************************************************************)
C2_FailedAttemptChangesNothing ==
    /\ [](Len(worksheet) = successes)
    /\ [][/\ solution_df' = solution_df
          /\ worksheet' # worksheet
                => /\ run'.submit_button
                   /\ run'.attempt.outcome = "success"
                   /\ worksheet' = Append(worksheet,
                         [Name |-> team_name', Score |-> run'.attempt.score,
                          Timestamp |-> now])
          /\ (run'.submit_button /\ run'.attempt.outcome # "success" /\ now' = now)
                => worksheet' = worksheet]_vars

C2_Witness ==
    /\ Attempted
    /\ att.outcome = "error"
    /\ att.exc.kind = "ScoringError"
    /\ Len(worksheet) = 1
    /\ successes = 1

(***************************************************************************)
(* C3 as stated: every submission with the required columns whose key set  *)
(* differs from the solution's is rejected with a key-set mismatch whose   *)
(* missing and extra sets are the two set differences.                     *)
(***************************************************************************)
C3_Original ==
    (Attempted /\ HasColumns /\ ~SameKeySet)
        => /\ att.exc.kind = "KeySetMismatch"
           /\ att.missing_ids = SolKeys \ SubKeys
           /\ att.extra_ids = SubKeys \ SolKeys

(***************************************************************************)
(* C3 amended: every submission with the required columns and the          *)
(* solution's row count whose key set differs from the solution's is       *)
(* rejected with a key-set mismatch; the missing and extra sets computed   *)
(* are the two set differences and the message carries one part per        *)
(* non-empty direction, holding the size of that set.                      *)
(***************************************************************************)
C3_KeySetMismatchReport ==
    (Attempted /\ HasColumns /\ SameRowCount /\ ~SameKeySet)
        => /\ att.outcome = "error"
           /\ att.exc.kind = "KeySetMismatch"
           /\ att.missing_ids = SolKeys \ SubKeys
           /\ att.extra_ids = SubKeys \ SolKeys
           /\ att.exc.error_messages =
                (IF SolKeys \ SubKeys # {}
                 THEN <<[what |-> "missing",
                         count |-> Cardinality(SolKeys \ SubKeys)]>>
                 ELSE <<>>)
                \o (IF SubKeys \ SolKeys # {}
                    THEN <<[what |-> "unexpected",
                            count |-> Cardinality(SubKeys \ SolKeys)]>>
                    ELSE <<>>)

C3_Witness ==
    /\ Attempted
    /\ att.exc.kind = "KeySetMismatch"
    /\ SolKeys \ SubKeys # {}
    /\ SubKeys \ SolKeys # {}
    /\ Len(att.exc.error_messages) = 2

(***************************************************************************)
(* C4 as stated: a submission lacking a required column is rejected with   *)
(* MissingColumns naming exactly the absent columns, and is never scored.  *)
(***************************************************************************)
C4_Original ==
    (Attempted /\ ~HasColumns)
        => /\ att.exc.kind = "MissingColumns"
           /\ att.exc.names = {"pol_number", "numclaims"} \ uploaded_file.columns
           /\ Steps \cap ({"rows", "keys"} \cup ScoringSteps) = {}

(***************************************************************************)
(* C4 amended: a submission lacking a required column is rejected with     *)
(* MissingColumns whose message names both required columns whichever is   *)
(* absent, and is never scored.                                            *)
(***************************************************************************)
C4_MissingColumnsRejected ==
    (Attempted /\ ~HasColumns)
        => /\ att.outcome = "error"
           /\ att.exc.kind = "MissingColumns"
           /\ att.exc.names = {"pol_number", "numclaims"}
           /\ Steps \cap ({"rows", "keys"} \cup ScoringSteps) = {}

C4_Witness ==
    /\ Attempted
    /\ uploaded_file.columns = {"pol_number"}
    /\ Len(SubRows) = Len(SolRows)
    /\ att.exc.kind = "MissingColumns"

(***************************************************************************)
(* C5: a submission with the required columns and a row count other than   *)
(* the solution's is rejected with a row-count mismatch reporting          *)
(* expected = rows of the solution and actual = rows of the submission,    *)
(* and the key-set check is not evaluated.                                 *)
(***************************************************************************)
C5_RowCountMismatchFirst ==
    (Attempted /\ HasColumns /\ ~SameRowCount)
        => /\ att.outcome = "error"
           /\ att.exc.kind = "RowCountMismatch"
           /\ att.exc.expected = Len(SolRows)
           /\ att.exc.actual = Len(SubRows)
           /\ att.trace = <<"read_csv", "schema", "rows">>

C5_Witness ==
    /\ Attempted
    /\ HasColumns
    /\ ~SameKeySet
    /\ Len(SubRows) > Len(SolRows)
    /\ att.exc.kind = "RowCountMismatch"

(***************************************************************************)
(* C6 as stated: a submission with the required columns, the solution's    *)
(* row count and the solution's key set is accepted and a score is         *)
(* produced.                                                               *)
(***************************************************************************)
C6_Original ==
    (Attempted /\ HasColumns /\ SameRowCount /\ SameKeySet)
        => att.outcome = "success"

(***************************************************************************)
(* C6 amended: such a submission passes the three validation checks and    *)
(* the F1 computation is run on it; a score is produced exactly when that  *)
(* computation does not raise, which it does on a missing prediction.      *)
(***************************************************************************)
C6_ValidSubmissionAccepted ==
    (Attempted /\ HasColumns /\ SameRowCount /\ SameKeySet)
        => /\ att.exc.kind \in {"none", "ScoringError"}
           /\ "f1_score" \in Steps
           /\ att.outcome = "success"
                <=> (\A i \in DOMAIN SubRows : SubRows[i].numclaims # "NaN")
           /\ att.outcome = "success" => att.score.den > 0

C6_Witness ==
    /\ Attempted
    /\ HasColumns
    /\ SameRowCount
    /\ SameKeySet
    /\ att.outcome = "success"
    /\ SubRows # SolRows

(***************************************************************************)
(* C7 as stated: on Scenario A the weighted F1 is about 0.7333.            *)
(***************************************************************************)
ScenarioA ==
    /\ Attempted
    /\ solution_df = [columns |-> {"pol_number", "numclaims"},
                      rows |-> <<[pol_number |-> 1, numclaims |-> "yes"],
                                 [pol_number |-> 2, numclaims |-> "no"],
                                 [pol_number |-> 3, numclaims |-> "yes"]>>]
    /\ HasColumns
    /\ SubRows = <<[pol_number |-> 1, numclaims |-> "yes"],
                   [pol_number |-> 2, numclaims |-> "yes"],
                   [pol_number |-> 3, numclaims |-> "yes"]>>

C7_Original ==
    ScenarioA => (att.outcome = "success" /\ ApproxScore(att.score, 7333))

(***************************************************************************)
(* C7 amended: on Scenario A validation accepts and the weighted F1 is     *)
(* (2/3) * (4/5) + (1/3) * 0 = 8/15, about 0.5333.                         *)
(***************************************************************************)
C7_ScenarioAScore ==
    ScenarioA
        => /\ att.outcome = "success"
           /\ att.score = [num |-> 8, den |-> 15]
           /\ ApproxScore(att.score, 5333)

C7_Witness == ScenarioA /\ att.outcome = "success" /\ att.merged_len = 3

C9_UniqueKeysMergeSize ==
    (Attempted /\ HasColumns /\ Unique(SolRows))
        => /\ ~Unique(SubRows)
                => att.exc.kind \in {"RowCountMismatch", "KeySetMismatch"}
           /\ "merge" \in Steps
                => /\ Unique(SubRows)
                   /\ att.merged_len = Len(SolRows)

C9_Witness ==
    /\ Attempted
    /\ HasColumns
    /\ Unique(SolRows)
    /\ Len(SolRows) > 1
    /\ "merge" \in Steps
    /\ att.merged_len = Len(SolRows)

(***************************************************************************)
(* C10: the leaderboard rendered by a run whose submission succeeded was   *)
(* read after the append and holds the new row; the leaderboard a refresh  *)
(* ends on is freshly read; any rendered leaderboard was read less than    *)
(* one TTL before it was rendered.                                         *)
(***************************************************************************)
C10_FreshAfterSubmission ==
    /\ (run.submit_button /\ att.outcome = "success")
            => /\ run.fetched_at = run.rendered_at
               /\ Len(leaderboard_df) = Len(worksheet)
               /\ \E i \in DOMAIN leaderboard_df :
                    /\ leaderboard_df[i].Name = team_name
                    /\ leaderboard_df[i].Score = att.score
                    /\ leaderboard_df[i].Timestamp = run.rendered_at
    /\ run.refresh_button => run.fetched_at = run.rendered_at
    /\ run.fetched_at <= run.rendered_at
    /\ run.rendered_at - run.fetched_at < 60

C10_Witness ==
    /\ run.submit_button
    /\ att.outcome = "success"
    /\ run.rendered_at > 0
    /\ run.rendered_at < 60
    /\ Len(leaderboard_df) = 2
    /\ leaderboard_df[2].Timestamp = run.rendered_at

====
